---- MODULE Spec2Model ----
(***************************************************************************)
(* The Angular template printer of @firestitch/lint                        *)
(* (prettier/angular-prettier-plugin.js, here src/unnamed/part_000).       *)
(*                                                                         *)
(* Strings are TLA+ strings, handled character by character with Len,      *)
(* SubSeq and \o, so that every regular expression of the source is an     *)
(* operator that scans the same characters the expression scans.           *)
(***************************************************************************)
EXTENDS Integers, Sequences, FiniteSets, TLC

(***************************************************************************)
(* String primitives (JavaScript String.prototype and RegExp classes).     *)
(***************************************************************************)
CharAt(s, k) == SubSeq(s, k, k)

From(s, k) == SubSeq(s, k, Len(s))

StartsWithAt(s, k, p) == k + Len(p) - 1 <= Len(s) /\ SubSeq(s, k, k + Len(p) - 1) = p

\* the class \s, on the characters the inputs are written with
IsSpace(c) == c \in {" ", "\n", "\t", "\r"}

\* the class \w
IsWordChar(c) ==
    c \in {"a","b","c","d","e","f","g","h","i","j","k","l","m","n","o","p","q","r",
           "s","t","u","v","w","x","y","z",
           "A","B","C","D","E","F","G","H","I","J","K","L","M","N","O","P","Q","R",
           "S","T","U","V","W","X","Y","Z",
           "0","1","2","3","4","5","6","7","8","9","_"}

\* the class \d, with the value of each digit
DigitValue(c) ==
    CASE c = "0" -> 0 [] c = "1" -> 1 [] c = "2" -> 2 [] c = "3" -> 3 [] c = "4" -> 4
      [] c = "5" -> 5 [] c = "6" -> 6 [] c = "7" -> 7 [] c = "8" -> 8 [] c = "9" -> 9
      [] OTHER -> -1

DigitChar(d) == CharAt("0123456789", d + 1)

RECURSIVE NumberToString(_)
NumberToString(n) ==
    IF n < 10 THEN DigitChar(n) ELSE NumberToString(n \div 10) \o DigitChar(n % 10)

\* the least element of a set of positions, 0 when there is none (a failed search)
FirstOf(S) == IF S = {} THEN 0 ELSE CHOOSE k \in S : \A m \in S : k <= m

\* the first position >= from at which p occurs in s, 0 when it does not
IndexOf(s, p, from) == FirstOf({k \in from..(Len(s) - Len(p) + 1) : StartsWithAt(s, k, p)})

EndsWith(s, p) == Len(s) >= Len(p) /\ SubSeq(s, Len(s) - Len(p) + 1, Len(s)) = p

\* String.prototype.trim
trim(s) ==
    LET keep == {k \in 1..Len(s) : ~IsSpace(CharAt(s, k))}
    IN  IF keep = {} THEN ""
        ELSE SubSeq(s, FirstOf(keep), CHOOSE k \in keep : \A m \in keep : m <= k)

\* the length of the run of \s characters that starts at position k (\s*, \s+)
RECURSIVE SpaceRun(_, _)
SpaceRun(s, k) ==
    IF k <= Len(s) /\ IsSpace(CharAt(s, k)) THEN 1 + SpaceRun(s, k + 1) ELSE 0

\* the length of the run of \w characters that starts at position k (\w+)
RECURSIVE WordRun(_, _)
WordRun(s, k) ==
    IF k <= Len(s) /\ IsWordChar(CharAt(s, k)) THEN 1 + WordRun(s, k + 1) ELSE 0

\* the length of the run of digits that starts at position k (\d+)
RECURSIVE DigitRun(_, _)
DigitRun(s, k) ==
    IF k <= Len(s) /\ DigitValue(CharAt(s, k)) >= 0 THEN 1 + DigitRun(s, k + 1) ELSE 0

\* text.replace(/\s+/g, ' '): the next run of whitespace, replaced, and so on after it
RECURSIVE collapseWhitespace(_)
collapseWhitespace(s) ==
    LET k == FirstOf({p \in 1..Len(s) : IsSpace(CharAt(s, p))})
    IN  IF k = 0 THEN s
        ELSE SubSeq(s, 1, k - 1) \o " " \o collapseWhitespace(From(s, k + SpaceRun(s, k)))

Last(q) == q[Len(q)]

ButLast(q) == SubSeq(q, 1, Len(q) - 1)

RECURSIVE JoinLines(_)
\* Array.prototype.join('\n')
JoinLines(q) ==
    IF q = <<>> THEN ""
    ELSE IF Len(q) = 1 THEN q[1] ELSE q[1] \o "\n" \o JoinLines(Tail(q))

(***************************************************************************)
(* The directive classifier.                                               *)
(***************************************************************************)
\* the alternation of isControlFlowDirective and of splitTextNode, in its order
DirectiveKeywords ==
    <<"if", "for", "switch", "defer", "else if", "else", "case", "default", "error">>

\* the alternation of isIfChainDirective, in its order
ChainKeywords == <<"else if", "else", "placeholder", "loading", "error">>

SelfClosingTags ==
    {"area", "base", "br", "col", "embed", "hr", "img", "input", "link", "meta",
     "source", "track", "wbr"}

isSelfClosingTag(name) == name \in SelfClosingTags

\* /^@(k1|k2|...)\b/ on t: some keyword follows the "@" and ends at a word boundary
\* (every keyword ends with a word character, so \b asks for a non-word character
\* or the end of the string next)
MatchesKeywordPrefix(t, kws) ==
    \E n \in 1..Len(kws) :
        /\ StartsWithAt(t, 1, "@" \o kws[n])
        /\ LET after == 2 + Len(kws[n])
           IN  after > Len(t) \/ ~IsWordChar(CharAt(t, after))

\* after the replace no line break is left, so the m flag's ^ is the start only
isControlFlowDirective(text) ==
    MatchesKeywordPrefix(trim(collapseWhitespace(text)), DirectiveKeywords)

isIfChainDirective(text) ==
    MatchesKeywordPrefix(trim(collapseWhitespace(text)), ChainKeywords)

\* /^\s*{{\s*.*?\s*}}\s*$/ : "{{" first and "}}" last once trimmed, and in between
\* leading and trailing whitespace around characters that are no line break
isInterpolation(text) ==
    LET t == trim(text)
    IN  /\ Len(t) >= 4
        /\ StartsWithAt(t, 1, "{{")
        /\ EndsWith(t, "}}")
        /\ IndexOf(trim(SubSeq(t, 3, Len(t) - 2)), "\n", 1) = 0
        /\ IndexOf(trim(SubSeq(t, 3, Len(t) - 2)), "\r", 1) = 0

(***************************************************************************)
(* The control-flow formatter.                                             *)
(***************************************************************************)
\* normalizedContent.match(/^(@\w+.*?){/): the end of the match, 0 when none.
\* "{" is no word character, so the lazy .*? stops at the first "{" after "@\w".
DirectiveMatchEnd(t) ==
    IF StartsWithAt(t, 1, "@") /\ Len(t) >= 2 /\ IsWordChar(CharAt(t, 2))
    THEN IndexOf(t, "{", 3)
    ELSE 0

\* directive.match(/^(@\w+(?:\s+if)?)\s*(.*)/): the end of group 1
DirectiveNameEnd(d) ==
    LET w  == 1 + WordRun(d, 2)
        sp == SpaceRun(d, w + 1)
    IN  IF sp >= 1 /\ StartsWithAt(d, w + sp + 1, "if") THEN w + sp + 2 ELSE w

formatControlFlow(value, indent) ==
    LET content           == trim(value)
        normalizedContent == collapseWhitespace(content)
        e                 == DirectiveMatchEnd(normalizedContent)
        directive         == trim(SubSeq(normalizedContent, 1, e - 1))
        nameEnd           == DirectiveNameEnd(directive)
        directiveName     == SubSeq(directive, 1, nameEnd)
        condition         == From(directive, nameEnd + 1 + SpaceRun(directive, nameEnd + 1))
    IN  IF e = 0 THEN indent \o content
        ELSE IF condition # "" THEN indent \o directiveName \o " " \o trim(condition) \o " {"
        ELSE indent \o directive \o " {"

(***************************************************************************)
(* The interpolation formatter.                                            *)
(***************************************************************************)
NoLineBreak(s) == IndexOf(s, "\n", 1) = 0 /\ IndexOf(s, "\r", 1) = 0

\* /{{\s*(.*?)\s*}}/ at position p: the position of its "}}", 0 when it does not
\* match there. It runs from "{{" to the first "}}" after it, and what lies between
\* is whitespace around characters that are no line break.
InterpolationEnd(s, p) ==
    LET e == IF StartsWithAt(s, p, "{{") THEN IndexOf(s, "}}", p + 2) ELSE 0
    IN  IF e # 0 /\ NoLineBreak(trim(SubSeq(s, p + 2, e - 1))) THEN e ELSE 0

\* text.replace(/{{\s*(.*?)\s*}}/g, ...): the next match, replaced, and so on after it
RECURSIVE replaceInterpolations(_)
replaceInterpolations(s) ==
    LET k == FirstOf({p \in 1..Len(s) : InterpolationEnd(s, p) # 0})
        e == InterpolationEnd(s, k)
    IN  IF k = 0 THEN s
        ELSE SubSeq(s, 1, k - 1) \o "{{ " \o trim(SubSeq(s, k + 2, e - 1)) \o " }}"
             \o replaceInterpolations(From(s, e + 2))

formatInterpolation(text, indent) == indent \o replaceInterpolations(text)

(***************************************************************************)
(* The text segmenter.                                                     *)
(***************************************************************************)
\* one interpolation, rebuilt with consistent spacing
formatMatch(interpolation) ==
    "{{ " \o trim(collapseWhitespace(SubSeq(interpolation, 3, Len(interpolation) - 2))) \o " }}"

\* content.replace(/{{\s*[\s\S]*?\s*}}/g, ...): the protected content and the
\* interpolations taken out of it; n interpolations were taken out before s
RECURSIVE protectInterpolations(_, _)
protectInterpolations(s, n) ==
    LET k == FirstOf({p \in 1..Len(s) : StartsWithAt(s, p, "{{") /\ IndexOf(s, "}}", p + 2) # 0})
        e == IndexOf(s, "}}", k + 2)
    IN  IF k = 0 THEN [text |-> s, interpolations |-> <<>>]
        ELSE LET rest == protectInterpolations(From(s, e + 2), n + 1)
             IN  [text |-> SubSeq(s, 1, k - 1) \o "__INTERPOLATION" \o NumberToString(n) \o "__"
                           \o rest.text,
                  interpolations |-> <<formatMatch(SubSeq(s, k, e + 1))>> \o rest.interpolations]

\* /\@(?:if|for|...).*?{/ at position p: the position of its "{", 0 when it does not
\* match there ("." is no line break)
SplitDirectiveEnd(s, p) ==
    LET BraceAfter(n) == IndexOf(s, "{", p + 1 + Len(DirectiveKeywords[n]))
        ok == {n \in 1..Len(DirectiveKeywords) :
                  /\ StartsWithAt(s, p, "@" \o DirectiveKeywords[n])
                  /\ BraceAfter(n) # 0
                  /\ NoLineBreak(SubSeq(s, p + 1 + Len(DirectiveKeywords[n]), BraceAfter(n) - 1))}
    IN  IF ok = {} THEN 0 ELSE BraceAfter(FirstOf(ok))

\* /(\}|\@(?:...).*?{)/ at position p: the position the match ends at, 0 when it
\* does not match there
SeparatorEnd(s, p) == IF CharAt(s, p) = "}" THEN p ELSE SplitDirectiveEnd(s, p)

\* protectedContent.split(/(\}|\@(?:...).*?{)/g): the piece before the next match, the
\* match itself, and so on after it
RECURSIVE splitPieces(_)
splitPieces(s) ==
    LET k == FirstOf({p \in 1..Len(s) : SeparatorEnd(s, p) # 0})
        e == SeparatorEnd(s, k)
    IN  IF k = 0 THEN <<s>>
        ELSE <<SubSeq(s, 1, k - 1), SubSeq(s, k, e)>> \o splitPieces(From(s, e + 1))

RECURSIVE ParseNumber(_)
ParseNumber(s) ==
    IF s = "" THEN 0 ELSE 10 * ParseNumber(ButLast(s)) + DigitValue(CharAt(s, Len(s)))

\* part.replace(/__INTERPOLATION(\d+)__/g, (_, index) => interpolations[index])
\* /__INTERPOLATION(\d+)__/ at position p: the number of its digits, 0 when it does
\* not match there
PlaceholderDigits(s, p) ==
    LET d == IF StartsWithAt(s, p, "__INTERPOLATION") THEN DigitRun(s, p + 15) ELSE 0
    IN  IF d >= 1 /\ StartsWithAt(s, p + 15 + d, "__") THEN d ELSE 0

RECURSIVE restoreInterpolations(_, _)
restoreInterpolations(s, interpolations) ==
    LET k  == FirstOf({p \in 1..Len(s) : PlaceholderDigits(s, p) # 0})
        d  == PlaceholderDigits(s, k)
        ix == ParseNumber(SubSeq(s, k + 15, k + 14 + d))
    IN  IF k = 0 THEN s
        ELSE SubSeq(s, 1, k - 1)
             \o (IF ix < Len(interpolations) THEN interpolations[ix + 1] ELSE "undefined")
             \o restoreInterpolations(From(s, k + 17 + d), interpolations)

\* .filter(Boolean).map(part => part.trim()).filter(Boolean).map(restore)
RECURSIVE trimmedParts(_, _)
trimmedParts(pieces, interpolations) ==
    IF pieces = <<>> THEN <<>>
    ELSE IF trim(Head(pieces)) = "" THEN trimmedParts(Tail(pieces), interpolations)
    ELSE <<restoreInterpolations(trim(Head(pieces)), interpolations)>>
         \o trimmedParts(Tail(pieces), interpolations)

\* the values of the parts of a text node whose value is not empty
splitTextNode(value) ==
    LET protected == protectInterpolations(value, 0)
    IN  trimmedParts(splitPieces(protected.text), protected.interpolations)

(***************************************************************************)
(* Nodes and attributes.                                                   *)
(***************************************************************************)
Text(value) == [type |-> "text", value |-> value, name |-> "", attrs |-> <<>>, children |-> <<>>]

Comment(value) == [type |-> "comment", value |-> value, name |-> "", attrs |-> <<>>, children |-> <<>>]

Element(name, attrs, children) ==
    [type |-> "element", value |-> "", name |-> name, attrs |-> attrs, children |-> children]

\* an attribute; isNull is value === null, the valueless attribute
Attr(name, value) == [name |-> name, isNull |-> FALSE, value |-> value]

BareAttr(name) == [name |-> name, isNull |-> TRUE, value |-> ""]

formatAttribute(attr) ==
    IF attr.isNull THEN attr.name ELSE attr.name \o "=\"" \o attr.value \o "\""

RECURSIVE attributeLines(_, _)
attributeLines(attrs, indent) ==
    IF attrs = <<>> THEN <<>>
    ELSE <<indent \o formatAttribute(Head(attrs))>> \o attributeLines(Tail(attrs), indent)

formatAttributes(attrs, indent) ==
    IF Len(attrs) = 1 THEN formatAttribute(attrs[1])
    ELSE JoinLines(attributeLines(attrs, indent))

hasContent(children) ==
    \E k \in 1..Len(children) :
        IF children[k].type = "text"
        THEN children[k].value # "" /\ trim(children[k].value) # ""
        ELSE TRUE

(***************************************************************************)
(* Blocks and the block stack.                                             *)
(***************************************************************************)
\* a Block whose content is indented by 4 spaces
openBlockWide(value, currentIndent) ==
    [directive |-> value, indent |-> currentIndent, contentIndent |-> currentIndent \o "    "]

\* the Block an opener pushes
openBlock(value, currentIndent) ==
    [directive |-> value, indent |-> currentIndent, contentIndent |-> currentIndent \o "  "]

\* a chain continuation that opened its Block one level deeper than the Block closed
chainBlockDeeper(value, block) ==
    [directive |-> value, indent |-> block.contentIndent,
     contentIndent |-> block.contentIndent \o "  "]

\* the Block a chain continuation pushes in place of the Block its closer popped
chainBlock(value, block) ==
    [directive |-> value, indent |-> block.indent, contentIndent |-> block.indent \o "  "]

\* the effective indent: the top Block's contentIndent, else the base indent
effectiveIndent(stack, baseIndent) ==
    IF Len(stack) > 0 THEN Last(stack).contentIndent ELSE baseIndent

\* a pop that leaves the stack as it is
popNothing(stack) == stack

\* nestedBlockStack.pop(), blockStack.pop(): the stack without its top Block
popBlock(stack) == ButLast(stack)

\* `${block.indent}}`
closerLine(block) == block.indent \o "}"

\* `${block.indent}} ${chainedDirective}`
chainLine(block, nextValue) == block.indent \o "} " \o trim(formatControlFlow(nextValue, ""))

\* results.push(formatted) under if (formatted.trim())
pushIfNotBlank(results, formatted) ==
    IF trim(formatted) # "" THEN Append(results, formatted) ELSE results

(***************************************************************************)
(* The element formatter.                                                  *)
(***************************************************************************)
\* formatElement on a text node whose value is not empty
formatText(value, indent) ==
    LET trimmed == trim(value)
    IN  IF trimmed = "" THEN ""
        ELSE IF isControlFlowDirective(trimmed) THEN formatControlFlow(value, indent)
        ELSE IF isInterpolation(trimmed) THEN formatInterpolation(trimmed, indent)
        ELSE indent \o trimmed

\* an opening tag whose attribute lines are indented by 2 spaces whatever the content
openingTagSingleIndent(node, indent) ==
    indent \o "<" \o node.name
    \o (IF Len(node.attrs) = 0 THEN ""
        ELSE IF Len(node.attrs) = 1 THEN " " \o formatAttributes(node.attrs, "")
        ELSE "\n" \o formatAttributes(node.attrs, indent \o "  "))
    \o ">"

\* the opening tag with its attributes, up to and with ">"
openingTag(node, indent) ==
    LET attrIndent == IF hasContent(node.children) THEN "    " ELSE "  "
    IN  indent \o "<" \o node.name
        \o (IF Len(node.attrs) = 0 THEN ""
            ELSE IF Len(node.attrs) = 1 THEN " " \o formatAttributes(node.attrs, "")
            ELSE "\n" \o formatAttributes(node.attrs, indent \o attrIndent))
        \o ">"

\* an element that is kept on one line only when it has no attribute at all
shouldBeSingleLineBare(node) == ~hasContent(node.children) /\ Len(node.attrs) = 0

\* const shouldBeSingleLine = !elementHasContent && (hasSingleAttr || !hasAttributes)
shouldBeSingleLine(node) == ~hasContent(node.children) /\ Len(node.attrs) <= 1

\* one part of a text child: [stack, results, j] after parts[j] is handled
elementPart(stack, results, parts, j, childBaseIndent) ==
    LET value == parts[j]
    IN  IF isControlFlowDirective(value)
        THEN LET currentIndent == effectiveIndent(stack, childBaseIndent)
             IN  [stack   |-> Append(stack, openBlock(value, currentIndent)),
                  results |-> Append(results, formatControlFlow(value, currentIndent)),
                  j       |-> j + 1]
        ELSE IF value = "}" /\ Len(stack) > 0
        THEN LET block == Last(stack)
             IN  IF j + 1 <= Len(parts) /\ isIfChainDirective(parts[j + 1])
                 THEN [stack   |-> Append(popBlock(stack), chainBlock(parts[j + 1], block)),
                       results |-> Append(results, chainLine(block, parts[j + 1])),
                       j       |-> j + 2]
                 ELSE [stack   |-> popBlock(stack),
                       results |-> Append(results, closerLine(block)),
                       j       |-> j + 1]
        ELSE [stack   |-> stack,
              results |-> pushIfNotBlank(results,
                              formatText(value, effectiveIndent(stack, childBaseIndent))),
              j       |-> j + 1]

\* the loop over the parts of one text child, from part j on
RECURSIVE elementParts(_, _, _, _, _)
elementParts(stack, results, parts, j, childBaseIndent) ==
    IF j > Len(parts) THEN [stack |-> stack, results |-> results]
    ELSE LET r == elementPart(stack, results, parts, j, childBaseIndent)
         IN  elementParts(r.stack, r.results, parts, r.j, childBaseIndent)

RECURSIVE formatElement(_, _)
RECURSIVE elementChildren(_, _, _, _, _)

\* a child that is no text with a value: formatted at the effective indent
elementOtherChild(stack, results, child, childBaseIndent) ==
    pushIfNotBlank(results, formatElement(child, effectiveIndent(stack, childBaseIndent)))

\* the loop over the children, from child i on
elementChildren(stack, results, children, i, childBaseIndent) ==
    IF i > Len(children) THEN [stack |-> stack, results |-> results]
    ELSE IF children[i].type = "text" /\ children[i].value # ""
    THEN LET r == elementParts(stack, results, splitTextNode(children[i].value), 1,
                               childBaseIndent)
         IN  elementChildren(r.stack, r.results, children, i + 1, childBaseIndent)
    ELSE elementChildren(stack,
                         elementOtherChild(stack, results, children[i], childBaseIndent),
                         children, i + 1, childBaseIndent)

\* what formatElement returns once the children are collected in childResults
elementWithChildren(node, indent, childResults) ==
    openingTag(node, indent) \o "\n" \o JoinLines(childResults) \o "\n" \o indent
    \o "</" \o node.name \o ">"

formatElement(node, indent) ==
    IF node.type = "comment" THEN indent \o "<!--" \o node.value \o "-->"
    ELSE IF node.type = "text" /\ node.value # "" THEN formatText(node.value, indent)
    ELSE IF node.name = "" THEN ""
    ELSE IF shouldBeSingleLine(node)
    THEN openingTag(node, indent)
         \o (IF ~isSelfClosingTag(node.name) THEN "</" \o node.name \o ">" ELSE "")
    ELSE IF Len(node.children) = 0 /\ isSelfClosingTag(node.name)
    THEN openingTag(node, indent)
    ELSE IF ~hasContent(node.children)
    THEN openingTag(node, indent) \o "\n" \o indent \o "</" \o node.name \o ">"
    ELSE elementWithChildren(node, indent,
             elementChildren(<<>>, <<>>, node.children, 1, indent \o "  ").results)

(***************************************************************************)
(* The root formatter.                                                     *)
(***************************************************************************)
\* one node of nodesToProcess when it is a text part: [stack, results, j] after it
rootPart(stack, results, parts, j, indent) ==
    LET value == parts[j]
    IN  IF value = "}"
        THEN IF Len(stack) > 0
             THEN LET block == Last(stack)
                  IN  IF j + 1 <= Len(parts) /\ isIfChainDirective(parts[j + 1])
                      THEN [stack   |-> Append(popBlock(stack), chainBlock(parts[j + 1], block)),
                            results |-> Append(results, chainLine(block, parts[j + 1])),
                            j       |-> j + 2]
                      ELSE [stack   |-> popBlock(stack),
                            results |-> Append(results, closerLine(block)),
                            j       |-> j + 1]
             ELSE [stack |-> stack, results |-> results, j |-> j + 1]
        ELSE IF isControlFlowDirective(value)
        THEN LET currentIndent == effectiveIndent(stack, indent)
             IN  [stack   |-> Append(stack, openBlock(value, currentIndent)),
                  results |-> Append(results, formatControlFlow(value, currentIndent)),
                  j       |-> j + 1]
        ELSE [stack   |-> stack,
              results |-> pushIfNotBlank(results, formatText(value, effectiveIndent(stack, indent))),
              j       |-> j + 1]

RECURSIVE rootParts(_, _, _, _, _)
rootParts(stack, results, parts, j, indent) ==
    IF j > Len(parts) THEN [stack |-> stack, results |-> results]
    ELSE LET r == rootPart(stack, results, parts, j, indent)
         IN  rootParts(r.stack, r.results, parts, r.j, indent)

\* processNode on a node that is no text: nodesToProcess is the node alone
rootOtherNode(stack, results, node, indent) ==
    pushIfNotBlank(results, formatElement(node, effectiveIndent(stack, indent)))

\* processNode returns at once on a text node that is empty or blank
isBlankText(node) == node.type = "text" /\ (node.value = "" \/ trim(node.value) = "")

RECURSIVE rootNodes(_, _, _, _, _)
rootNodes(stack, results, nodes, i, baseIndent) ==
    IF i > Len(nodes) THEN [stack |-> stack, results |-> results]
    ELSE IF isBlankText(nodes[i]) THEN rootNodes(stack, results, nodes, i + 1, baseIndent)
    ELSE IF nodes[i].type = "text"
    THEN LET r == rootParts(stack, results, splitTextNode(nodes[i].value), 1, baseIndent)
         IN  rootNodes(r.stack, r.results, nodes, i + 1, baseIndent)
    ELSE rootNodes(stack, rootOtherNode(stack, results, nodes[i], baseIndent),
                   nodes, i + 1, baseIndent)

formatRoot(nodes, baseIndent) == JoinLines(rootNodes(<<>>, <<>>, nodes, 1, baseIndent).results)

(***************************************************************************)
(* The inputs.                                                             *)
(***************************************************************************)
\* the most items (text fragments and nested elements) of a child sequence
MaxItems == 3

\* the most attributes of an element
MaxAttrs == 3

Root(children) == [type |-> "root", value |-> "", name |-> "", attrs |-> <<>>, children |-> children]

\* one continuation for each chain keyword of isIfChainDirective
Continuations ==
    {"@else {", "@else if (b) {", "@placeholder {", "@loading {", "@error {"}

\* an element whose own text child holds a closer
NestedElement == Element("span", <<>>, <<Text("}")>>)

\* what a child sequence is written with: an opener, a closer, a closer with a
\* continuation right after it, plain text, a directive with no "{", and a nested
\* element
Items(continuation) ==
    {Text("@if (a) {"), Text("}"), Text("} " \o continuation), Text("x"), Text("@if (a)"),
     NestedElement}

\* the nodes a parser hands over: text that is not interrupted by an element is one
\* text node
RECURSIVE BuildNodes(_)
BuildNodes(items) ==
    IF items = <<>> THEN <<>>
    ELSE LET rest == BuildNodes(Tail(items))
         IN  IF Head(items).type = "text" /\ rest # <<>> /\ rest[1].type = "text"
             THEN <<Text(Head(items).value \o " " \o rest[1].value)>> \o Tail(rest)
             ELSE <<Head(items)>> \o rest

ItemSequences(continuation) ==
    UNION {[1..n -> Items(continuation)] : n \in 0..MaxItems}

TagNames == {"div", "span", "input", "br"}

AttrChoices == {BareAttr("disabled"), Attr("class", "c")}

AttrSequences == UNION {[1..n -> AttrChoices] : n \in 0..MaxAttrs}

\* the children the layout rules tell apart: none, blank text, text, an
\* interpolation, elements, and text with control flow
LayoutChildren ==
    {<<>>, <<Text(" \n ")>>, <<Text("Short text")>>, <<Text("{{ value }}")>>,
     <<Text(" "), Element("br", <<>>, <<>>), Comment(" c ")>>,
     <<Text("@if (a) { x } @else { y } }")>>}

BaseIndents == {"", "  "}

\* whole templates: the control flow of the formatting guide (part_001, 74-85), and
\* blank text and a comment before a chain with two bodies
RootTemplates ==
    {<<Text("@if (condition) {"), Element("div", <<>>, <<Text("Content")>>),
       Text("} @else if (otherCondition) {"), Element("div", <<>>, <<Text("Other content")>>),
       Text("} @else {"), Element("div", <<>>, <<Text("Default content")>>),
       Text("}\n\n@for (item of items) {"), Element("div", <<>>, <<Text("{{ item }}")>>),
       Text("}\n")>>,
     <<Text("\n  "), Comment(" c "), Text("@if (a) { x } @else { y }")>>}

(***************************************************************************)
(* The state: one call of formatRoot or of formatElement, held at the      *)
(* start, between two children, between two parts of a text child, or at   *)
(* its return.                                                             *)
(***************************************************************************)
VARIABLES call, tree, indent, pc, i, parts, j, blockStack, results, output

vars == <<call, tree, indent, pc, i, parts, j, blockStack, results, output>>

InitLocals ==
    /\ i = 1
    /\ parts = <<>>
    /\ j = 1
    /\ blockStack = <<>>
    /\ results = <<>>
    /\ output = ""

\* formatRoot(node.children), as print calls it
InitRoot ==
    /\ call = "root"
    /\ \/ \E c \in Continuations : \E items \in ItemSequences(c) :
              tree = Root(BuildNodes(items))
       \/ \E nodes \in RootTemplates : tree = Root(nodes)
    /\ indent = ""
    /\ pc = "children"
    /\ InitLocals

\* formatElement on an element whose children hold control flow
InitElement ==
    /\ call = "element"
    /\ \E c \in Continuations : \E items \in ItemSequences(c) :
           tree = Element("div", <<>>, BuildNodes(items))
    /\ indent = ""
    /\ pc = "start"
    /\ InitLocals

\* formatElement on the elements the layout rules tell apart
InitLayout ==
    /\ call = "element"
    /\ \E name \in TagNames, attrs \in AttrSequences, children \in LayoutChildren :
           tree = Element(name, attrs, children)
    /\ indent \in BaseIndents
    /\ pc = "start"
    /\ InitLocals

Init == InitRoot \/ InitElement \/ InitLayout

children == tree.children

childBaseIndent == indent \o "  "

Return(text) ==
    /\ output' = text
    /\ pc' = "done"
    /\ UNCHANGED <<call, tree, indent, i, parts, j, blockStack, results>>

ApplyPart(r) ==
    /\ blockStack' = r.stack
    /\ results' = r.results
    /\ j' = r.j
    /\ UNCHANGED <<call, tree, indent, pc, i, parts, output>>

EnterParts(value) ==
    /\ parts' = splitTextNode(value)
    /\ j' = 1
    /\ pc' = "parts"
    /\ UNCHANGED <<call, tree, indent, i, blockStack, results, output>>

NextChild(newResults) ==
    /\ results' = newResults
    /\ i' = i + 1
    /\ pc' = "children"
    /\ parts' = <<>>
    /\ j' = 1
    /\ UNCHANGED <<call, tree, indent, blockStack, output>>

(***************************************************************************)
(* formatElement, step by step.                                            *)
(***************************************************************************)
ElSingleLine ==
    /\ call = "element" /\ pc = "start"
    /\ shouldBeSingleLine(tree)
    /\ Return(openingTag(tree, indent)
              \o (IF ~isSelfClosingTag(tree.name) THEN "</" \o tree.name \o ">" ELSE ""))

ElSelfClosing ==
    /\ call = "element" /\ pc = "start"
    /\ ~shouldBeSingleLine(tree)
    /\ Len(children) = 0 /\ isSelfClosingTag(tree.name)
    /\ Return(openingTag(tree, indent))

ElNoContent ==
    /\ call = "element" /\ pc = "start"
    /\ ~shouldBeSingleLine(tree)
    /\ ~(Len(children) = 0 /\ isSelfClosingTag(tree.name))
    /\ ~hasContent(children)
    /\ Return(openingTag(tree, indent) \o "\n" \o indent \o "</" \o tree.name \o ">")

ElEnterChildren ==
    /\ call = "element" /\ pc = "start"
    /\ hasContent(children)
    /\ pc' = "children"
    /\ UNCHANGED <<call, tree, indent, i, parts, j, blockStack, results, output>>

ElTextChild ==
    /\ call = "element" /\ pc = "children" /\ i <= Len(children)
    /\ children[i].type = "text" /\ children[i].value # ""
    /\ EnterParts(children[i].value)

ElOtherChild ==
    /\ call = "element" /\ pc = "children" /\ i <= Len(children)
    /\ ~(children[i].type = "text" /\ children[i].value # "")
    /\ NextChild(elementOtherChild(blockStack, results, children[i], childBaseIndent))

ElOpener ==
    /\ call = "element" /\ pc = "parts" /\ j <= Len(parts)
    /\ isControlFlowDirective(parts[j])
    /\ ApplyPart(elementPart(blockStack, results, parts, j, childBaseIndent))

ElCloser ==
    /\ call = "element" /\ pc = "parts" /\ j <= Len(parts)
    /\ ~isControlFlowDirective(parts[j])
    /\ parts[j] = "}" /\ Len(blockStack) > 0
    /\ ApplyPart(elementPart(blockStack, results, parts, j, childBaseIndent))

ElContent ==
    /\ call = "element" /\ pc = "parts" /\ j <= Len(parts)
    /\ ~isControlFlowDirective(parts[j])
    /\ ~(parts[j] = "}" /\ Len(blockStack) > 0)
    /\ ApplyPart(elementPart(blockStack, results, parts, j, childBaseIndent))

ElPartsDone ==
    /\ call = "element" /\ pc = "parts" /\ j > Len(parts)
    /\ NextChild(results)

ElFinish ==
    /\ call = "element" /\ pc = "children" /\ i > Len(children)
    /\ Return(elementWithChildren(tree, indent, results))

(***************************************************************************)
(* formatRoot, step by step.                                               *)
(***************************************************************************)
RootSkipBlank ==
    /\ call = "root" /\ pc = "children" /\ i <= Len(children)
    /\ isBlankText(children[i])
    /\ NextChild(results)

RootTextNode ==
    /\ call = "root" /\ pc = "children" /\ i <= Len(children)
    /\ ~isBlankText(children[i]) /\ children[i].type = "text"
    /\ EnterParts(children[i].value)

RootOtherNode ==
    /\ call = "root" /\ pc = "children" /\ i <= Len(children)
    /\ children[i].type # "text"
    /\ NextChild(rootOtherNode(blockStack, results, children[i], indent))

RootCloser ==
    /\ call = "root" /\ pc = "parts" /\ j <= Len(parts)
    /\ parts[j] = "}" /\ Len(blockStack) > 0
    /\ ApplyPart(rootPart(blockStack, results, parts, j, indent))

RootDropCloser ==
    /\ call = "root" /\ pc = "parts" /\ j <= Len(parts)
    /\ parts[j] = "}" /\ Len(blockStack) = 0
    /\ ApplyPart(rootPart(blockStack, results, parts, j, indent))

RootOpener ==
    /\ call = "root" /\ pc = "parts" /\ j <= Len(parts)
    /\ parts[j] # "}" /\ isControlFlowDirective(parts[j])
    /\ ApplyPart(rootPart(blockStack, results, parts, j, indent))

RootContent ==
    /\ call = "root" /\ pc = "parts" /\ j <= Len(parts)
    /\ parts[j] # "}" /\ ~isControlFlowDirective(parts[j])
    /\ ApplyPart(rootPart(blockStack, results, parts, j, indent))

RootPartsDone ==
    /\ call = "root" /\ pc = "parts" /\ j > Len(parts)
    /\ NextChild(results)

RootFinish ==
    /\ call = "root" /\ pc = "children" /\ i > Len(children)
    /\ Return(JoinLines(results))

Next ==
    \/ ElSingleLine \/ ElSelfClosing \/ ElNoContent \/ ElEnterChildren
    \/ ElTextChild \/ ElOtherChild \/ ElOpener \/ ElCloser \/ ElContent
    \/ ElPartsDone \/ ElFinish
    \/ RootSkipBlank \/ RootTextNode \/ RootOtherNode
    \/ RootCloser \/ RootDropCloser \/ RootOpener \/ RootContent
    \/ RootPartsDone \/ RootFinish

Spec == Init /\ [][Next]_vars

\* the steps compose to the functions: what a call returns step by step is what
\* formatElement and formatRoot return
StepsAgree ==
    pc = "done" =>
        output = (IF call = "root" THEN formatRoot(children, indent)
                  ELSE formatElement(tree, indent))

(***************************************************************************)
(* Properties.                                                             *)
(***************************************************************************)
\* the number of spaces a line starts with
LeadingSpaces(s) ==
    LET other == {k \in 1..Len(s) : CharAt(s, k) # " "}
    IN  IF other = {} THEN Len(s) ELSE FirstOf(other) - 1

RECURSIVE Spaces(_)
Spaces(n) == IF n = 0 THEN "" ELSE " " \o Spaces(n - 1)

\* the call is at part j of the text node it is in
AtPart == pc = "parts" /\ j <= Len(parts)

\* part j is a closer, a Block is open, and the part after it is a chain continuation
ChainCase ==
    /\ AtPart
    /\ parts[j] = "}" /\ Len(blockStack) > 0
    /\ j + 1 <= Len(parts) /\ isIfChainDirective(parts[j + 1])

\* a continuation fragment up to its "{", as it is written
ContinuationHead(fragment) == trim(SubSeq(fragment, 1, IndexOf(fragment, "{", 1) - 1))

\* part j is neither an opener nor a closer, and the Block on top was opened by a
\* chain continuation
ChainBodyCase ==
    /\ AtPart
    /\ parts[j] # "}" /\ ~isControlFlowDirective(parts[j])
    /\ Len(blockStack) > 0 /\ isIfChainDirective(Last(blockStack).directive)

\* C1: in formatElement's child loop and in formatRoot alike, a closer that a chain
\* continuation follows while a Block is open adds exactly one line,
\* "<indent>} <continuation> {" with the indent of the Block it closes, and steps
\* over the continuation, which is not printed again; the Block the continuation
\* opens has the indent of the Block closed, and that indent is the one its line is
\* printed at; a body fragment of the continuation's Block is printed at that
\* indent plus 2 spaces.
ChainMergesCloserAndContinuation ==
    [][ /\ ChainCase =>
            /\ results' = Append(results, Last(blockStack).indent \o "} "
                                  \o ContinuationHead(parts[j + 1]) \o " {")
            /\ j' = j + 2
            /\ Len(blockStack') = Len(blockStack)
            /\ Last(blockStack').indent = Last(blockStack).indent
            /\ Last(blockStack').directive = parts[j + 1]
            /\ Spaces(LeadingSpaces(Last(results'))) = Last(blockStack').indent
        /\ (AtPart /\ isControlFlowDirective(parts[j]) /\ parts[j] # "}") =>
            /\ Len(results') = Len(results) + 1
            /\ Spaces(LeadingSpaces(Last(results'))) = Last(blockStack').indent
        /\ ChainBodyCase =>
            /\ results' = Append(results, Last(blockStack).indent \o "  " \o parts[j])
            /\ blockStack' = blockStack
      ]_vars

\* an element's child loop has printed a chain line and the body after it
ChainLinePrinted ==
    /\ call = "element" /\ pc = "parts"
    /\ results = <<"  @if (a) {", "  } @else if (b) {", "    x">>
    /\ Len(blockStack) = 1 /\ blockStack[1].directive = "@else if (b) {"

\* C2: a closer met while no Block is open is dropped, in formatRoot and in
\* formatElement's child loop alike: the stack and the lines stay as they are, and
\* the call goes on with the next part.
StrayCloserDropped ==
    [][ (AtPart /\ parts[j] = "}" /\ Len(blockStack) = 0) =>
            /\ results' = results
            /\ blockStack' = blockStack
            /\ j' = j + 1
            /\ pc' = pc
      ]_vars

\* s holds the closing tag of name
HasClosingTag(s, name) == IndexOf(s, "</" \o name \o ">", 1) # 0

\* C3: what formatElement returns for an element with a self-closing name holds no
\* closing tag of that name, whatever its attributes and children.
SelfClosingNeverClosed ==
    (pc = "done" /\ call = "element" /\ tree.name \in
        {"area", "base", "br", "col", "embed", "hr", "img", "input", "link", "meta",
         "source", "track", "wbr"})
    => ~HasClosingTag(output, tree.name)

\* the children hold no meaningful content: there are none, or only blank text
NoMeaningfulContent(nodes) ==
    \A k \in 1..Len(nodes) : nodes[k].type = "text" /\ trim(nodes[k].value) = ""

\* an attribute as it is written: its name when it has no value, else name="value"
AttrText(attr) ==
    IF attr.isNull THEN attr.name ELSE attr.name \o "=\"" \o attr.value \o "\""

\* the closing tag of an element, none for a self-closing name
ClosingTagOf(name) ==
    IF name \in {"area", "base", "br", "col", "embed", "hr", "img", "input", "link",
                 "meta", "source", "track", "wbr"}
    THEN "" ELSE "</" \o name \o ">"

\* C4: an element with no meaningful content and at most one attribute is returned
\* as one line with no line break: indent, "<name", a space and the attribute when
\* there is one, ">", and "</name>" unless the name is self-closing.
EmptyElementOnOneLine ==
    (pc = "done" /\ call = "element" /\ NoMeaningfulContent(children)
        /\ Len(tree.attrs) <= 1)
    => /\ output = indent \o "<" \o tree.name
                   \o (IF Len(tree.attrs) = 1 THEN " " \o AttrText(tree.attrs[1]) ELSE "")
                   \o ">" \o ClosingTagOf(tree.name)
       /\ NoLineBreak(output)

\* a div with one attribute and blank text only has been printed at indent 2
EmptyDivPrinted ==
    /\ pc = "done" /\ call = "element"
    /\ Len(children) = 1 /\ Len(tree.attrs) = 1
    /\ output = "  <div class=\"c\"></div>"

\* the attributes, each on a line of its own that starts with pad
RECURSIVE AttrBlock(_, _)
AttrBlock(attrs, pad) ==
    IF Len(attrs) = 0 THEN ""
    ELSE "\n" \o pad \o AttrText(Head(attrs)) \o AttrBlock(Tail(attrs), pad)

\* an opening tag with its attributes on lines of their own: "<name" at indent,
\* the attributes at indent plus pad, ">" after the last one
MultiLineTag(node, pad) ==
    indent \o "<" \o node.name \o AttrBlock(node.attrs, indent \o pad) \o ">"

\* C5: an element with two or more attributes at indent I is returned as "I<name",
\* each attribute on its own line in input order, at I + 2 spaces when the element
\* has no meaningful content and at I + 4 spaces when it has, ">" after the last
\* attribute; with no content and a name that is not self-closing "</name>" follows
\* on a line of its own at I; with content the children's lines follow, each at
\* I + 2 spaces or deeper and the first one at exactly I + 2 spaces, then "</name>"
\* on a line of its own at I. A line added while no Block is open is at I + 2 spaces.
MultiAttributeLayout ==
    /\ [] ((pc = "done" /\ call = "element" /\ Len(tree.attrs) >= 2) =>
            IF NoMeaningfulContent(children)
            THEN /\ SubSeq(output, 1, Len(MultiLineTag(tree, "  "))) = MultiLineTag(tree, "  ")
                 /\ ClosingTagOf(tree.name) # "" =>
                        output = MultiLineTag(tree, "  ") \o "\n" \o indent
                                 \o "</" \o tree.name \o ">"
            ELSE /\ output = MultiLineTag(tree, "    ") \o "\n" \o JoinLines(results)
                             \o "\n" \o indent \o "</" \o tree.name \o ">"
                 /\ Len(results) > 0
                 /\ LeadingSpaces(results[1]) = Len(indent) + 2
                 /\ \A k \in 1..Len(results) :
                        SubSeq(results[k], 1, Len(indent) + 2) = indent \o "  ")
    /\ [][ (call = "element" /\ Len(tree.attrs) >= 2 /\ Len(blockStack) = 0
            /\ Len(results') = Len(results) + 1)
           => LeadingSpaces(Last(results')) = Len(indent) + 2 ]_vars

\* a div with two attributes and text has been printed at indent 2
MultiAttributeDivPrinted ==
    /\ pc = "done" /\ call = "element" /\ indent = "  "
    /\ output = "  <div\n      disabled\n      class=\"c\">\n    Short text\n  </div>"

\* C6: an element with content and no attribute or a single attribute is returned
\* on one line: opening tag, content and closing tag with no line break between
\* them, as "<span>Short text</span>" and "<div>{{ value }}</div>".
ContentElementOnOneLine ==
    (pc = "done" /\ call = "element" /\ Len(tree.attrs) <= 1
        /\ Len(children) = 1 /\ children[1].type = "text"
        /\ children[1].value \in {"Short text", "{{ value }}"})
    => output = indent \o "<" \o tree.name
                \o (IF Len(tree.attrs) = 1 THEN " " \o AttrText(tree.attrs[1]) ELSE "")
                \o ">" \o children[1].value \o "</" \o tree.name \o ">"

\* C7 as it is stated: every Block pushed during a call has been popped when the
\* call finishes, so the stack is empty then.
StackEmptyAtReturn == pc = "done" => blockStack = <<>>

\* the Blocks the first k lines leave open: an opener line opens one, a closer line
\* closes one when one is open, a chain line closes one and opens one
RECURSIVE OpenDepth(_, _)
OpenDepth(lines, k) ==
    IF k = 0 THEN 0
    ELSE LET d == OpenDepth(lines, k - 1)
             t == trim(lines[k])
         IN  IF isControlFlowDirective(t) THEN d + 1
             ELSE IF t = "}" /\ d > 0 THEN d - 1
             ELSE d

\* C7, amended: a Block is pushed by an opener or a continuation of the call's own
\* sequence, with one line; it is popped only by a closer of that sequence, which
\* pops the top Block alone and prints one line; a nested element, whatever closers
\* its children hold, leaves the stack of its parent as it is; and the stack holds
\* at every moment as many Blocks as the lines printed so far have opened and not
\* closed, so that it is empty at the return exactly when every opener has had its
\* closer.
BlocksPoppedByOwnClosers ==
    /\ [] (Len(blockStack) = OpenDepth(results, Len(results)))
    /\ [][ /\ Len(blockStack') < Len(blockStack) =>
                /\ AtPart /\ parts[j] = "}"
                /\ blockStack' = ButLast(blockStack)
                /\ results' = Append(results, Last(blockStack).indent \o "}")
           /\ (AtPart /\ parts[j] = "}" /\ Len(blockStack) > 0) =>
                /\ Len(results') = Len(results) + 1
                /\ IF ChainCase
                   THEN /\ Len(blockStack') = Len(blockStack)
                        /\ ButLast(blockStack') = ButLast(blockStack)
                   ELSE blockStack' = ButLast(blockStack)
           /\ Len(blockStack') > Len(blockStack) =>
                /\ AtPart /\ parts[j] # "}"
                /\ ButLast(blockStack') = blockStack
                /\ Len(results') = Len(results) + 1
           /\ (pc = "children" /\ i <= Len(children) /\ children[i].type # "text") =>
                blockStack' = blockStack
         ]_vars

\* formatRoot has returned after an opener, a nested element whose child is a
\* closer, and the closer of the opener
NestedCloserLeftParentBlock ==
    /\ pc = "done" /\ call = "root"
    /\ results = <<"@if (a) {", "  <span>\n    }\n  </span>", "}">>
    /\ blockStack = <<>>

\* the base indent of the call: the caller's for formatRoot, the element's indent
\* plus 2 spaces for formatElement
BaseIndent == IF call = "root" THEN indent ELSE indent \o "  "

\* C9: in every state of formatRoot and of formatElement's child loop each Block on
\* the stack has contentIndent = indent plus 2 spaces, the bottom Block has the base
\* indent of the call, and every other Block has the contentIndent of the Block
\* beneath it as its indent: the Block at depth k has indent = base + 2k spaces.
BlockStackIndents ==
    \A k \in 1..Len(blockStack) :
        /\ blockStack[k].contentIndent = blockStack[k].indent \o "  "
        /\ blockStack[k].indent =
               (IF k = 1 THEN BaseIndent ELSE blockStack[k - 1].contentIndent)
        /\ blockStack[k].indent = BaseIndent \o Spaces(2 * (k - 1))

\* an element's child loop holds two Blocks, the top one opened by a continuation
ChainBlockOnSecondLevel ==
    /\ call = "element" /\ pc = "parts"
    /\ Len(blockStack) = 2
    /\ blockStack[2].directive = "@else {"
    /\ blockStack[2].indent = "    "

\* the text is a directive for the classifier and holds no "{"
DirectiveWithoutBrace(text) == isControlFlowDirective(text) /\ IndexOf(text, "{", 1) = 0

\* C10: a fragment opens a Block only if it begins with "@" and a directive keyword
\* and holds a "{"; a fragment that begins with such a keyword and holds no "{"
\* pushes no Block and is printed as plain text at the effective indent.
OpenerNeedsBrace ==
    [][ AtPart =>
            /\ Len(blockStack') > Len(blockStack) =>
                   (isControlFlowDirective(parts[j]) /\ IndexOf(parts[j], "{", 1) # 0)
            /\ DirectiveWithoutBrace(parts[j]) =>
                   /\ blockStack' = blockStack
                   /\ results' = Append(results,
                          (IF Len(blockStack) > 0 THEN Last(blockStack).contentIndent
                           ELSE BaseIndent) \o parts[j])
      ]_vars

\* The printed text parsed back into a tree of the same shape: an element keeps its
\* name and attributes, a comment its value, and a text node holds what was printed
\* in its place, that is its lines, each with its indentation, between line breaks.
RECURSIVE ReparseNodes(_, _, _, _, _)
RECURSIVE ReparseElement(_, _)

\* the text node in the place of the lines printed for a text node
PrintedText(lines) ==
    IF Len(lines) = 0 THEN Text("\n") ELSE Text("\n" \o JoinLines(lines) \o "\n")

\* the nodes from k on, of formatRoot (isRoot) or of an element's child loop, with
\* the Blocks open before them
ReparseNodes(stack, nodes, k, base, isRoot) ==
    IF k > Len(nodes) THEN <<>>
    ELSE IF nodes[k].type = "text"
    THEN LET r == IF isRoot
                  THEN rootParts(stack, <<>>, splitTextNode(nodes[k].value), 1, base)
                  ELSE elementParts(stack, <<>>, splitTextNode(nodes[k].value), 1, base)
         IN  <<PrintedText(r.results)>> \o ReparseNodes(r.stack, nodes, k + 1, base, isRoot)
    ELSE <<ReparseElement(nodes[k], effectiveIndent(stack, base))>>
         \o ReparseNodes(stack, nodes, k + 1, base, isRoot)

\* an element printed at indent at: printed on one line it has no children, printed
\* with no content it has the line break before its closing tag
ReparseElement(node, at) ==
    IF node.type # "element" THEN node
    ELSE IF NoMeaningfulContent(node.children)
    THEN Element(node.name, node.attrs,
                 IF Len(node.attrs) <= 1 \/ (Len(node.children) = 0 /\ ClosingTagOf(node.name) = "")
                 THEN <<>> ELSE <<Text("\n" \o at)>>)
    ELSE Element(node.name, node.attrs,
                 ReparseNodes(<<>>, node.children, 1, at \o "  ", FALSE))

\* C8: printing is idempotent: the output parsed back into a tree of the same shape
\* and printed again is the same text, for formatRoot and for formatElement.
PrintIsIdempotent ==
    pc = "done" =>
        IF call = "root"
        THEN formatRoot(ReparseNodes(<<>>, children, 1, indent, TRUE), indent) = output
        ELSE formatElement(ReparseElement(tree, indent), indent) = output

\* the text a continuation fragment holds after its "{"
ContinuationBody(fragment) == trim(From(fragment, IndexOf(fragment, "{", 1) + 1))

\* part j is a closer that a chain continuation follows while a Block is open, and
\* the continuation fragment holds text after its "{"
ChainWithBodyCase ==
    /\ ChainCase
    /\ IndexOf(parts[j + 1], "{", 1) # 0
    /\ ContinuationBody(parts[j + 1]) # ""

\* C11: in formatRoot and in formatElement's child loop, no text of a Block's body
\* is lost: a plain-text fragment met while a Block is open is added to the output,
\* after everything printed before it, at the Block's contentIndent; and text that
\* follows the "{" of a chain continuation (the segmenter leaves it in the
\* continuation's fragment when the keyword is placeholder or loading, which it
\* does not split on) is printed on its own line, at the contentIndent of the
\* continuation's Block, right after the "} <continuation> {" line.
BodyTextPreserved ==
    [][ /\ (/\ AtPart /\ Len(blockStack) > 0
            /\ parts[j] # "}" /\ ~isControlFlowDirective(parts[j])
            /\ ~isInterpolation(parts[j])) =>
               results' = Append(results, Last(blockStack).contentIndent \o parts[j])
        /\ ChainWithBodyCase =>
            /\ Len(results') = Len(results) + 2
            /\ results'[Len(results) + 1] =
                   Last(blockStack).indent \o "} " \o ContinuationHead(parts[j + 1]) \o " {"
            /\ results'[Len(results) + 2] =
                   Last(blockStack').contentIndent \o ContinuationBody(parts[j + 1])
      ]_vars

====
